---- MODULE Spec2Model ----
(***************************************************************************)
(* A model of celery.managers: the Django managers TaskManager and         *)
(* TaskSetManager that store task and taskset results.                     *)
(*                                                                         *)
(* Worker processes call the managers' methods concurrently against one    *)
(* database.  A method is split at each database round trip (the lookup    *)
(* and the insert of get_or_create, the save, the evaluation of a          *)
(* queryset), so that the calls of other processes interleave between      *)
(* them.  Any round trip may raise a backend exception.                    *)
(***************************************************************************)
EXTENDS Integers, FiniteSets, Sequences, TLC

\* ---------------------------------------------------------------- bounds
MaxTime == 2        \* the clock runs 0..MaxTime
MaxCalls == 3       \* method calls started in one behaviour

\* ------------------------------------------------------------- constants
\* celery.conf.TASK_RESULT_EXPIRES, in clock ticks
TASK_RESULT_EXPIRES == 1
\* the default of get_task's exception_retry_count
GET_TASK_RETRY == 1
\* the default of TaskManager.store_result's exception_retry_count
STORE_RESULT_RETRY == 2

Procs == {"w1", "w2"}
TaskIds == {"t1", "t2"}
TaskSetIds == {"s1", "s2"}

\* (status, result, traceback) as store_result receives them; a traceback
\* left out is None
PayloadA == [status |-> "SUCCESS", result |-> "r1", traceback |-> "tb1"]
PayloadB == [status |-> "RETRY", result |-> "r2", traceback |-> "None"]
Payloads == {PayloadA, PayloadB}
TaskSetResults == {"g1", "g2"}

\* the field defaults of the Task model: what get_or_create(task_id=...)
\* creates when no defaults are passed
DefaultPayload == [status |-> "PENDING", result |-> "None", traceback |-> "None"]

\* the exception classes a backend round trip may raise
ErrKinds == {"TransientConflict", "PermanentBackendFailure"}
NoErr == [kind |-> "none", attempt |-> 0]

VARIABLES
    now,        \* datetime.now()
    backend,    \* "up", or the exception every round trip raises for now
    tasks,      \* the rows of the Task table
    tasksets,   \* the rows of the TaskSet table
    seq,        \* the primary-key sequences of the two tables
    pc,         \* where each process is in its call
    frame,      \* the arguments and locals of each process's call
    out,        \* how each process's last call ended
    ncalls,     \* calls started
    plan        \* the calls a scripted worker has yet to make, in order

vars == <<now, backend, tasks, tasksets, seq, pc, frame, out, ncalls, plan>>

\* ------------------------------------------------------- the two tables
TaskRow(pk, task_id, payload, date_done) ==
    [pk |-> pk, id |-> task_id, status |-> payload.status,
     result |-> payload.result, traceback |-> payload.traceback,
     date_done |-> date_done]

TaskSetRow(pk, taskset_id, result, date_done) ==
    [pk |-> pk, id |-> taskset_id, result |-> result, date_done |-> date_done]

PayloadOf(row) ==
    [status |-> row.status, result |-> row.result, traceback |-> row.traceback]

\* self.get(key=...): the rows with that key
Lookup(rows, key) == {r \in rows : r.id = key}

\* (mutant) the key column is not declared unique
UniqueOK_not_declared(rows, key) == TRUE

\* the unique constraint on task_id and on taskset_id
UniqueOK(rows, key) == Lookup(rows, key) = {}

\* whether the table holds a row with the key and the values of call f
Holds(rows, f) ==
    \E r \in Lookup(rows, f.id) :
        /\ r.result = f.payload.result
        /\ f.op = "store_result" =>
              r.status = f.payload.status /\ r.traceback = f.payload.traceback

\* date_done is set to the time of the write on every save
AutoNow(t) == t

\* (mutant) filter(date_done__lte=cutoff)
Expired_lte(rows, cutoff) == {r \in rows : r.date_done <= cutoff}

\* filter(date_done__lt=cutoff)
Expired(rows, cutoff) == {r \in rows : r.date_done < cutoff}

\* datetime.now() - TASK_RESULT_EXPIRES
Cutoff(t) == t - TASK_RESULT_EXPIRES

\* (mutant) the queryset is built and never deleted
DeleteRows_not_run(rows, doomed) == rows

\* QuerySet.delete() as one DELETE statement over the rows of the query
DeleteRows(rows, doomed) == rows \ doomed

\* QuerySet.delete() as the deletion, by primary key, of the objects it
\* has collected from the query
DeleteObjects(rows, pks) == {r \in rows : r.pk \notin pks}

\* ------------------------------------------------------- frames, results
\* retry is exception_retry_count as the running (recursive) call has it,
\* budget the count the caller passed; attempts counts the try blocks
\* entered and rollbacks the calls of rollback_unless_managed; collected
\* holds the primary keys delete() has read and not yet deleted
NoFrame ==
    [op |-> "none", id |-> "none", payload |-> DefaultPayload, budget |-> 0,
     retry |-> 0, attempts |-> 0, rollbacks |-> 0, pk |-> 0, cutoff |-> 0,
     began |-> 0, wrote |-> FALSE, collected |-> {}]

NewFrame(op, id, payload, n) ==
    [NoFrame EXCEPT !.op = op, !.id = id, !.payload = payload, !.budget = n,
                    !.retry = n, !.attempts = 1]

\* how a call ended: what it returned (a row, rows, a flag, nothing) or the
\* exception it raised; live tells whether the row returned was in its
\* table when the round trip that returned it was over
NoOut ==
    [kind |-> "none", rows |-> {}, flag |-> FALSE, err |-> NoErr,
     live |-> FALSE]

Returned(kind, rows, flag) ==
    [kind |-> kind, rows |-> rows, flag |-> flag, err |-> NoErr,
     live |-> FALSE]

Raised(err) ==
    [kind |-> "raise", rows |-> {}, flag |-> FALSE, err |-> err,
     live |-> FALSE]

\* the exception the backend raises to a round trip of attempt n
BackendError(n) == [kind |-> backend, attempt |-> n]

\* the IntegrityError of an insert that breaks the unique constraint
IntegrityError(n) == [kind |-> "TransientConflict", attempt |-> n]

\* a call of a script: the method, the key and the values passed
Call(op, id, payload) == [op |-> op, id |-> id, payload |-> payload]

\* no script: the workers call what they like
NoPlan == [calls |-> <<>>, at |-> 1]

\* empty tables, idle workers
Start(script) ==
    /\ now = 0
    /\ backend = "up"
    /\ tasks = {}
    /\ tasksets = {}
    /\ seq = [task |-> 0, taskset |-> 0]
    /\ pc = [p \in Procs |-> "idle"]
    /\ frame = [p \in Procs |-> NoFrame]
    /\ out = [p \in Procs |-> NoOut]
    /\ ncalls = 0
    /\ plan = script

Init == Start(NoPlan)

\* a process starts a call
Begin(p) ==
    /\ pc[p] = "idle"
    /\ ncalls < MaxCalls
    /\ ncalls' = ncalls + 1

\* a call goes on to its next round trip
Goto(p, f, at) ==
    /\ pc' = [pc EXCEPT ![p] = at]
    /\ frame' = [frame EXCEPT ![p] = f]
    /\ out' = [out EXCEPT ![p] = NoOut]

\* a call ends
End(p, f, o) ==
    /\ pc' = [pc EXCEPT ![p] = "idle"]
    /\ frame' = [frame EXCEPT ![p] = f]
    /\ out' = [out EXCEPT ![p] = o]

\* roll back, and enter the method again with one retry less
Retry(f) ==
    [f EXCEPT !.retry = @ - 1, !.rollbacks = @ + 1, !.attempts = @ + 1]

Tick ==
    /\ now < MaxTime
    /\ now' = now + 1
    /\ UNCHANGED <<backend, tasks, tasksets, seq, pc, frame, out, ncalls, plan>>

\* the backend starts to fail, and recovers
Outage ==
    /\ backend = "up"
    /\ backend' \in ErrKinds
    /\ UNCHANGED <<now, tasks, tasksets, seq, pc, frame, out, ncalls, plan>>

Recover ==
    /\ backend # "up"
    /\ backend' = "up"
    /\ UNCHANGED <<now, tasks, tasksets, seq, pc, frame, out, ncalls, plan>>

\* ------------------------------------------------- TaskManager.get_task
\* (mutant) is_successful tells whether the task has left PENDING
get_task_result_not_pending(f, row, table) ==
    IF f.op = "is_successful"
    THEN Returned("bool", {}, row.status # "PENDING")
    ELSE [Returned("row", {row}, FALSE) EXCEPT !.live = row \in table]

\* return task; is_successful compares its status with "SUCCESS"
get_task_result(f, row, table) ==
    IF f.op = "is_successful"
    THEN Returned("bool", {}, row.status = "SUCCESS")
    ELSE [Returned("row", {row}, FALSE) EXCEPT !.live = row \in table]

\* (mutant) the exception is re-raised at once, with no retry
get_task_except_no_retry(p, f, e) == End(p, f, Raised(e))

\* (mutant) only a transient conflict is retried
get_task_except_transient_only(p, f, e) ==
    IF f.retry > 0 /\ e.kind = "TransientConflict"
    THEN Goto(p, Retry(f), "get_task_get")
    ELSE End(p, f, Raised(e))

\* except Exception: roll back and call get_task again with one retry
\* less, or re-raise
get_task_except(p, f, e) ==
    IF f.retry > 0
    THEN Goto(p, Retry(f), "get_task_get")
    ELSE End(p, f, Raised(e))

\* (mutant) self.get(task_id=task_id), and None when there is no such row
get_task_get_or_none(p, f) ==
    /\ \/ /\ backend = "up"
          /\ \E r \in Lookup(tasks, f.id) :
                End(p, f, get_task_result(f, r, tasks))
       \/ /\ backend = "up"
          /\ Lookup(tasks, f.id) = {}
          /\ End(p, f, Returned("absent", {}, FALSE))
       \/ /\ backend # "up"
          /\ get_task_except(p, f, BackendError(f.attempts))
    /\ UNCHANGED <<now, backend, tasks, tasksets, seq>>

\* (mutant) the row that was found is saved before it is returned
get_task_get_saved(p, f) ==
    /\ \/ /\ backend = "up"
          /\ \E r \in Lookup(tasks, f.id) :
                LET row == [r EXCEPT !.date_done = AutoNow(now)]
                IN /\ tasks' = (tasks \ {r}) \cup {row}
                   /\ End(p, f, get_task_result(f, row, tasks'))
       \/ /\ backend = "up"
          /\ Lookup(tasks, f.id) = {}
          /\ Goto(p, f, "get_task_create")
          /\ UNCHANGED tasks
       \/ /\ backend # "up"
          /\ get_task_except(p, f, BackendError(f.attempts))
          /\ UNCHANGED tasks
    /\ UNCHANGED <<now, backend, tasksets, seq>>

\* get_or_create, first half: self.get(task_id=task_id)
get_task_get(p, f) ==
    /\ \/ /\ backend = "up"
          /\ \E r \in Lookup(tasks, f.id) : End(p, f, get_task_result(f, r, tasks))
       \/ /\ backend = "up"
          /\ Lookup(tasks, f.id) = {}
          /\ Goto(p, f, "get_task_create")
       \/ /\ backend # "up"
          /\ get_task_except(p, f, BackendError(f.attempts))
    /\ UNCHANGED <<now, backend, tasks, tasksets, seq>>

\* get_task(task_id, exception_retry_count=n), up to its first round trip
get_task_call(p, t, n) ==
    /\ Begin(p)
    /\ get_task_get(p, NewFrame("get_task", t, DefaultPayload, n))

\* (mutant) is_successful looks the row up and creates none
is_successful_call_read_only(p, t) ==
    /\ Begin(p)
    /\ LET f == NewFrame("is_successful", t, DefaultPayload, GET_TASK_RETRY)
       IN \/ /\ backend = "up"
             /\ \E r \in Lookup(tasks, t) :
                   End(p, f, get_task_result(f, r, tasks))
          \/ /\ backend = "up"
             /\ Lookup(tasks, t) = {}
             /\ End(p, f, Returned("bool", {}, FALSE))
          \/ /\ backend # "up"
             /\ get_task_except(p, f, BackendError(f.attempts))
    /\ UNCHANGED <<now, backend, tasks, tasksets, seq>>

\* is_successful(task_id): get_task(task_id) with the default count
is_successful_call(p, t) ==
    /\ Begin(p)
    /\ get_task_get(p, NewFrame("is_successful", t, DefaultPayload,
                                GET_TASK_RETRY))

\* the recursive get_task, up to its first round trip
get_task_recurse(p) ==
    /\ pc[p] = "get_task_get"
    /\ get_task_get(p, frame[p])
    /\ UNCHANGED <<ncalls, plan>>

\* get_or_create, second half: the insert of a row with the field defaults
get_task_create(p) ==
    /\ pc[p] = "get_task_create"
    /\ \/ /\ backend = "up"
          /\ UniqueOK(tasks, frame[p].id)
          /\ LET row == TaskRow(seq.task + 1, frame[p].id, DefaultPayload,
                                AutoNow(now))
             IN /\ tasks' = tasks \cup {row}
                /\ seq' = [seq EXCEPT !.task = @ + 1]
                /\ End(p, frame[p], get_task_result(frame[p], row, tasks'))
       \/ /\ backend = "up"
          /\ ~UniqueOK(tasks, frame[p].id)
          /\ get_task_except(p, frame[p], IntegrityError(frame[p].attempts))
          /\ UNCHANGED <<tasks, seq>>
       \/ /\ backend # "up"
          /\ get_task_except(p, frame[p], BackendError(frame[p].attempts))
          /\ UNCHANGED <<tasks, seq>>
    /\ UNCHANGED <<now, backend, tasksets, ncalls, plan>>

\* ------------------------ TaskManager.get_all_expired / delete_expired
\* get_all_expired() builds the queryset: the cutoff is fixed here, the
\* query runs when the caller evaluates it
get_all_expired_call(p) ==
    /\ Begin(p)
    /\ Goto(p, [NewFrame("get_all_expired", "none", DefaultPayload, 0)
                   EXCEPT !.cutoff = Cutoff(now), !.began = now],
            "get_all_expired_eval")
    /\ UNCHANGED <<now, backend, tasks, tasksets, seq>>

get_all_expired_eval(p) ==
    /\ pc[p] = "get_all_expired_eval"
    /\ IF backend = "up"
       THEN End(p, frame[p],
                Returned("rows", Expired(tasks, frame[p].cutoff), FALSE))
       ELSE End(p, frame[p], Raised(BackendError(frame[p].attempts)))
    /\ UNCHANGED <<now, backend, tasks, tasksets, seq, ncalls, plan>>

delete_expired_call(p) ==
    /\ Begin(p)
    /\ Goto(p, [NewFrame("delete_expired", "none", DefaultPayload, 0)
                   EXCEPT !.cutoff = Cutoff(now), !.began = now],
            "delete_expired_delete")
    /\ UNCHANGED <<now, backend, tasks, tasksets, seq>>

\* self.get_all_expired().delete().  The ORM either deletes the rows of
\* the query in one statement, or reads them and deletes them by primary
\* key in a second round trip (delete_expired_objects); managers.py does
\* not tell which, so it may be either
delete_expired_delete(p) ==
    /\ pc[p] = "delete_expired_delete"
    /\ \/ /\ backend = "up"
          /\ tasks' = DeleteRows(tasks, Expired(tasks, frame[p].cutoff))
          /\ End(p, frame[p], Returned("ok", {}, FALSE))
       \/ /\ backend = "up"
          /\ Expired(tasks, frame[p].cutoff) # {}
          /\ Goto(p, [frame[p] EXCEPT !.collected =
                        {r.pk : r \in Expired(tasks, frame[p].cutoff)}],
                  "delete_expired_objects")
          /\ UNCHANGED tasks
       \/ /\ backend # "up"
          /\ End(p, frame[p], Raised(BackendError(frame[p].attempts)))
          /\ UNCHANGED tasks
    /\ UNCHANGED <<now, backend, tasksets, seq, ncalls, plan>>

\* delete(), second round trip: the collected objects are deleted
delete_expired_objects(p) ==
    /\ pc[p] = "delete_expired_objects"
    /\ IF backend = "up"
       THEN /\ tasks' = DeleteObjects(tasks, frame[p].collected)
            /\ End(p, frame[p], Returned("ok", {}, FALSE))
       ELSE /\ End(p, frame[p], Raised(BackendError(frame[p].attempts)))
            /\ UNCHANGED tasks
    /\ UNCHANGED <<now, backend, tasksets, seq, ncalls, plan>>

\* ---------------------------------------------- TaskManager.store_result
\* (mutant) the count is compared with >= 0: one retry too many
store_result_except_one_more(p, f, e) ==
    IF f.retry >= 0
    THEN Goto(p, Retry(f), "store_result_get")
    ELSE End(p, f, Raised(e))

\* (mutant) the recursive call leaves the traceback out
store_result_except_no_traceback(p, f, e) ==
    IF f.retry > 0
    THEN Goto(p, [Retry(f) EXCEPT !.payload.traceback = "None"],
              "store_result_get")
    ELSE End(p, f, Raised(e))

\* (mutant) the recursive call is given the count it was given itself
store_result_except_same_count(p, f, e) ==
    IF f.retry > 0
    THEN Goto(p, [Retry(f) EXCEPT !.retry = f.retry], "store_result_get")
    ELSE End(p, f, Raised(e))

\* except Exception: roll back and call store_result again with one retry
\* less, or re-raise
store_result_except(p, f, e) ==
    IF f.retry > 0
    THEN Goto(p, Retry(f), "store_result_get")
    ELSE End(p, f, Raised(e))

\* (mutant) the assignment of the traceback is missing
SetFields_no_traceback(row, payload, t) ==
    [row EXCEPT !.status = payload.status, !.result = payload.result,
                !.date_done = AutoNow(t)]

\* (mutant) a row in a final status is not overwritten
SetFields_validated(row, payload, t) ==
    IF row.status \in {"SUCCESS", "FAILURE", "REVOKED"}
    THEN [row EXCEPT !.date_done = AutoNow(t)]
    ELSE [row EXCEPT !.status = payload.status, !.result = payload.result,
                     !.traceback = payload.traceback,
                     !.date_done = AutoNow(t)]

\* task.status = status; task.result = result; task.traceback = traceback
SetFields(row, payload, t) ==
    [row EXCEPT !.status = payload.status, !.result = payload.result,
                !.traceback = payload.traceback, !.date_done = AutoNow(t)]

\* get_or_create, first half: self.get(task_id=task_id)
store_result_get(p, f) ==
    /\ \/ /\ backend = "up"
          /\ \E r \in Lookup(tasks, f.id) :
                Goto(p, [f EXCEPT !.pk = r.pk], "store_result_save")
       \/ /\ backend = "up"
          /\ Lookup(tasks, f.id) = {}
          /\ Goto(p, f, "store_result_create")
       \/ /\ backend # "up"
          /\ store_result_except(p, f, BackendError(f.attempts))
    /\ UNCHANGED <<now, backend, tasks, tasksets, seq>>

\* store_result(task_id, result, status, traceback, exception_retry_count=n),
\* up to its first round trip
store_result_call(p, t, payload, n) ==
    /\ Begin(p)
    /\ store_result_get(p, NewFrame("store_result", t, payload, n))

\* the recursive store_result, up to its first round trip
store_result_recurse(p) ==
    /\ pc[p] = "store_result_get"
    /\ store_result_get(p, frame[p])
    /\ UNCHANGED <<ncalls, plan>>

\* get_or_create, second half: the insert of a row with the defaults
\* status, result and traceback; created, so nothing more is done
store_result_create(p) ==
    /\ pc[p] = "store_result_create"
    /\ \/ /\ backend = "up"
          /\ UniqueOK(tasks, frame[p].id)
          /\ tasks' = tasks \cup {TaskRow(seq.task + 1, frame[p].id,
                                          frame[p].payload, AutoNow(now))}
          /\ seq' = [seq EXCEPT !.task = @ + 1]
          /\ End(p, [frame[p] EXCEPT !.wrote = Holds(tasks', frame[p])],
                Returned("ok", {}, FALSE))
       \/ /\ backend = "up"
          /\ ~UniqueOK(tasks, frame[p].id)
          /\ store_result_except(p, frame[p], IntegrityError(frame[p].attempts))
          /\ UNCHANGED <<tasks, seq>>
       \/ /\ backend # "up"
          /\ store_result_except(p, frame[p], BackendError(frame[p].attempts))
          /\ UNCHANGED <<tasks, seq>>
    /\ UNCHANGED <<now, backend, tasksets, ncalls, plan>>

\* (mutant) the row that was found is deleted and inserted anew, and the
\* insert is refused while the backend is failing
store_result_save_delete_insert(p) ==
    /\ pc[p] = "store_result_save"
    /\ \/ /\ backend = "up"
          /\ tasks' = DeleteObjects(tasks, {frame[p].pk}) \cup
                         {TaskRow(frame[p].pk, frame[p].id, frame[p].payload,
                                  AutoNow(now))}
          /\ End(p, [frame[p] EXCEPT !.wrote = Holds(tasks', frame[p])],
                Returned("ok", {}, FALSE))
       \/ /\ backend # "up"
          /\ tasks' = DeleteObjects(tasks, {frame[p].pk})
          /\ store_result_except(p, frame[p], BackendError(frame[p].attempts))
    /\ UNCHANGED <<now, backend, tasksets, seq, ncalls, plan>>

\* if not created: the three assignments and task.save().  save() updates
\* the row with the instance's primary key, and inserts the instance when
\* that row is gone
store_result_save(p) ==
    /\ pc[p] = "store_result_save"
    /\ \/ /\ backend = "up"
          /\ \E r \in tasks :
                /\ r.pk = frame[p].pk
                /\ tasks' = (tasks \ {r}) \cup
                               {SetFields(r, frame[p].payload, now)}
          /\ End(p, [frame[p] EXCEPT !.wrote = Holds(tasks', frame[p])],
                Returned("ok", {}, FALSE))
       \/ /\ backend = "up"
          /\ \A r \in tasks : r.pk # frame[p].pk
          /\ UniqueOK(tasks, frame[p].id)
          /\ tasks' = tasks \cup {TaskRow(frame[p].pk, frame[p].id,
                                          frame[p].payload, AutoNow(now))}
          /\ End(p, [frame[p] EXCEPT !.wrote = Holds(tasks', frame[p])],
                Returned("ok", {}, FALSE))
       \/ /\ backend = "up"
          /\ \A r \in tasks : r.pk # frame[p].pk
          /\ ~UniqueOK(tasks, frame[p].id)
          /\ store_result_except(p, frame[p], IntegrityError(frame[p].attempts))
          /\ UNCHANGED tasks
       \/ /\ backend # "up"
          /\ store_result_except(p, frame[p], BackendError(frame[p].attempts))
          /\ UNCHANGED tasks
    /\ UNCHANGED <<now, backend, tasksets, seq, ncalls, plan>>

\* --------------------- TaskSetManager.get_all_expired / delete_expired
ts_get_all_expired_call(p) ==
    /\ Begin(p)
    /\ Goto(p, [NewFrame("ts_get_all_expired", "none", DefaultPayload, 0)
                   EXCEPT !.cutoff = Cutoff(now), !.began = now],
            "ts_get_all_expired_eval")
    /\ UNCHANGED <<now, backend, tasks, tasksets, seq>>

ts_get_all_expired_eval(p) ==
    /\ pc[p] = "ts_get_all_expired_eval"
    /\ IF backend = "up"
       THEN End(p, frame[p],
                Returned("rows", Expired(tasksets, frame[p].cutoff), FALSE))
       ELSE End(p, frame[p], Raised(BackendError(frame[p].attempts)))
    /\ UNCHANGED <<now, backend, tasks, tasksets, seq, ncalls, plan>>

ts_delete_expired_call(p) ==
    /\ Begin(p)
    /\ Goto(p, [NewFrame("ts_delete_expired", "none", DefaultPayload, 0)
                   EXCEPT !.cutoff = Cutoff(now), !.began = now],
            "ts_delete_expired_delete")
    /\ UNCHANGED <<now, backend, tasks, tasksets, seq>>

\* self.get_all_expired().delete(), in one statement or in two round
\* trips, as for the tasks
ts_delete_expired_delete(p) ==
    /\ pc[p] = "ts_delete_expired_delete"
    /\ \/ /\ backend = "up"
          /\ tasksets' = DeleteRows(tasksets,
                                    Expired(tasksets, frame[p].cutoff))
          /\ End(p, frame[p], Returned("ok", {}, FALSE))
       \/ /\ backend = "up"
          /\ Expired(tasksets, frame[p].cutoff) # {}
          /\ Goto(p, [frame[p] EXCEPT !.collected =
                        {r.pk : r \in Expired(tasksets, frame[p].cutoff)}],
                  "ts_delete_expired_objects")
          /\ UNCHANGED tasksets
       \/ /\ backend # "up"
          /\ End(p, frame[p], Raised(BackendError(frame[p].attempts)))
          /\ UNCHANGED tasksets
    /\ UNCHANGED <<now, backend, tasks, seq, ncalls, plan>>

ts_delete_expired_objects(p) ==
    /\ pc[p] = "ts_delete_expired_objects"
    /\ IF backend = "up"
       THEN /\ tasksets' = DeleteObjects(tasksets, frame[p].collected)
            /\ End(p, frame[p], Returned("ok", {}, FALSE))
       ELSE /\ End(p, frame[p], Raised(BackendError(frame[p].attempts)))
            /\ UNCHANGED tasksets
    /\ UNCHANGED <<now, backend, tasks, seq, ncalls, plan>>

\* ------------------------------------------- TaskSetManager.get_taskset
\* self.get(taskset_id=taskset_id); DoesNotExist becomes None, any other
\* exception leaves the method
\* (mutant) a taskset that is not there is created, as get_task does
get_taskset_or_create(p, s) ==
    /\ Begin(p)
    /\ LET f == NewFrame("get_taskset", s, DefaultPayload, 0)
           row == TaskSetRow(seq.taskset + 1, s, "None", AutoNow(now))
       IN \/ /\ backend = "up"
             /\ \E r \in Lookup(tasksets, s) :
                   End(p, f, Returned("row", {r}, FALSE))
             /\ UNCHANGED <<tasksets, seq>>
          \/ /\ backend = "up"
             /\ Lookup(tasksets, s) = {}
             /\ tasksets' = tasksets \cup {row}
             /\ seq' = [seq EXCEPT !.taskset = @ + 1]
             /\ End(p, f, Returned("row", {row}, FALSE))
          \/ /\ backend # "up"
             /\ End(p, f, Raised(BackendError(f.attempts)))
             /\ UNCHANGED <<tasksets, seq>>
    /\ UNCHANGED <<now, backend, tasks>>

\* (mutant) except Exception: return None
get_taskset_except_all(p, s) ==
    /\ Begin(p)
    /\ LET f == NewFrame("get_taskset", s, DefaultPayload, 0)
       IN \/ /\ backend = "up"
             /\ \E r \in Lookup(tasksets, s) :
                   End(p, f, Returned("row", {r}, FALSE))
          \/ /\ (backend # "up" \/ Lookup(tasksets, s) = {})
             /\ End(p, f, Returned("absent", {}, FALSE))
    /\ UNCHANGED <<now, backend, tasks, tasksets, seq>>

get_taskset(p, s) ==
    /\ Begin(p)
    /\ LET f == NewFrame("get_taskset", s, DefaultPayload, 0)
       IN \/ /\ backend = "up"
             /\ \E r \in Lookup(tasksets, s) :
                   End(p, f, Returned("row", {r}, FALSE))
          \/ /\ backend = "up"
             /\ Lookup(tasksets, s) = {}
             /\ End(p, f, Returned("absent", {}, FALSE))
          \/ /\ backend # "up"
             /\ End(p, f, Raised(BackendError(f.attempts)))
    /\ UNCHANGED <<now, backend, tasks, tasksets, seq>>

\* ------------------------------------------- TaskSetManager.store_result
\* (mutant) the retry is made without the rollback
ts_store_result_except_no_rollback(p, f, e) ==
    IF f.retry = 1
    THEN Goto(p, [f EXCEPT !.retry = 0, !.attempts = @ + 1],
              "ts_store_result_get")
    ELSE End(p, f, Raised(e))

\* (mutant) the recursive call passes exception_retry on instead of False
ts_store_result_except_flag_kept(p, f, e) ==
    IF f.retry = 1
    THEN Goto(p, [Retry(f) EXCEPT !.retry = 1], "ts_store_result_get")
    ELSE End(p, f, Raised(e))

\* except Exception: if exception_retry, roll back and call store_result
\* again with exception_retry False, or re-raise.  retry is 1 for True and
\* 0 for False
ts_store_result_except(p, f, e) ==
    IF f.retry = 1
    THEN Goto(p, [Retry(f) EXCEPT !.retry = 0], "ts_store_result_get")
    ELSE End(p, f, Raised(e))

\* get_or_create, first half: self.get(taskset_id=taskset_id)
ts_store_result_get(p, f) ==
    /\ \/ /\ backend = "up"
          /\ \E r \in Lookup(tasksets, f.id) :
                Goto(p, [f EXCEPT !.pk = r.pk], "ts_store_result_save")
       \/ /\ backend = "up"
          /\ Lookup(tasksets, f.id) = {}
          /\ Goto(p, f, "ts_store_result_create")
       \/ /\ backend # "up"
          /\ ts_store_result_except(p, f, BackendError(f.attempts))
    /\ UNCHANGED <<now, backend, tasks, tasksets, seq>>

\* store_result(taskset_id, result, exception_retry=flag), up to its first
\* round trip
ts_store_result_call(p, s, result, flag) ==
    /\ Begin(p)
    /\ ts_store_result_get(p, NewFrame("ts_store_result", s,
                                       [DefaultPayload EXCEPT !.result = result],
                                       IF flag THEN 1 ELSE 0))

\* the recursive store_result, up to its first round trip
ts_store_result_recurse(p) ==
    /\ pc[p] = "ts_store_result_get"
    /\ ts_store_result_get(p, frame[p])
    /\ UNCHANGED <<ncalls, plan>>

\* get_or_create, second half: the insert of a row with the default result
ts_store_result_create(p) ==
    /\ pc[p] = "ts_store_result_create"
    /\ \/ /\ backend = "up"
          /\ UniqueOK(tasksets, frame[p].id)
          /\ tasksets' = tasksets \cup
                {TaskSetRow(seq.taskset + 1, frame[p].id,
                            frame[p].payload.result, AutoNow(now))}
          /\ seq' = [seq EXCEPT !.taskset = @ + 1]
          /\ End(p, [frame[p] EXCEPT !.wrote = Holds(tasksets', frame[p])],
                 Returned("ok", {}, FALSE))
       \/ /\ backend = "up"
          /\ ~UniqueOK(tasksets, frame[p].id)
          /\ ts_store_result_except(p, frame[p],
                                    IntegrityError(frame[p].attempts))
          /\ UNCHANGED <<tasksets, seq>>
       \/ /\ backend # "up"
          /\ ts_store_result_except(p, frame[p],
                                    BackendError(frame[p].attempts))
          /\ UNCHANGED <<tasksets, seq>>
    /\ UNCHANGED <<now, backend, tasks, ncalls, plan>>

\* if not created: taskset.result = result; taskset.save()
ts_store_result_save(p) ==
    /\ pc[p] = "ts_store_result_save"
    /\ \/ /\ backend = "up"
          /\ \E r \in tasksets :
                /\ r.pk = frame[p].pk
                /\ tasksets' = (tasksets \ {r}) \cup
                      {[r EXCEPT !.result = frame[p].payload.result,
                                 !.date_done = AutoNow(now)]}
          /\ End(p, [frame[p] EXCEPT !.wrote = Holds(tasksets', frame[p])],
                 Returned("ok", {}, FALSE))
       \/ /\ backend = "up"
          /\ \A r \in tasksets : r.pk # frame[p].pk
          /\ UniqueOK(tasksets, frame[p].id)
          /\ tasksets' = tasksets \cup
                {TaskSetRow(frame[p].pk, frame[p].id,
                            frame[p].payload.result, AutoNow(now))}
          /\ End(p, [frame[p] EXCEPT !.wrote = Holds(tasksets', frame[p])],
                 Returned("ok", {}, FALSE))
       \/ /\ backend = "up"
          /\ \A r \in tasksets : r.pk # frame[p].pk
          /\ ~UniqueOK(tasksets, frame[p].id)
          /\ ts_store_result_except(p, frame[p],
                                    IntegrityError(frame[p].attempts))
          /\ UNCHANGED tasksets
       \/ /\ backend # "up"
          /\ ts_store_result_except(p, frame[p],
                                    BackendError(frame[p].attempts))
          /\ UNCHANGED tasksets
    /\ UNCHANGED <<now, backend, tasks, seq, ncalls, plan>>

\* ------------------------------------------------------ the whole system
\* what process p may do with the task results: start a call for a task
\* of T with retry counts from G (get_task) and S (store_result), or take
\* the next round trip of its call
StepTask(p, T, G, S) ==
    \/ \E t \in T, n \in G : get_task_call(p, t, n) /\ UNCHANGED plan
    \/ \E t \in T : is_successful_call(p, t) /\ UNCHANGED plan
    \/ get_task_recurse(p)
    \/ get_task_create(p)
    \/ \E t \in T, v \in Payloads, n \in S :
          store_result_call(p, t, v, n) /\ UNCHANGED plan
    \/ store_result_recurse(p)
    \/ store_result_create(p)
    \/ store_result_save(p)

\* ... with the taskset results, for a taskset of T and flags from F
StepTaskSet(p, T, F) ==
    \/ \E s \in T : get_taskset(p, s) /\ UNCHANGED plan
    \/ \E s \in T, v \in TaskSetResults, b \in F :
          ts_store_result_call(p, s, v, b) /\ UNCHANGED plan
    \/ ts_store_result_recurse(p)
    \/ ts_store_result_create(p)
    \/ ts_store_result_save(p)

\* ... with the expired results of both tables
StepExpired(p) ==
    \/ get_all_expired_call(p) /\ UNCHANGED plan
    \/ get_all_expired_eval(p)
    \/ delete_expired_call(p) /\ UNCHANGED plan
    \/ delete_expired_delete(p)
    \/ delete_expired_objects(p)
    \/ ts_get_all_expired_call(p) /\ UNCHANGED plan
    \/ ts_get_all_expired_eval(p)
    \/ ts_delete_expired_call(p) /\ UNCHANGED plan
    \/ ts_delete_expired_delete(p)
    \/ ts_delete_expired_objects(p)

\* Two workers call every method, with the default retry counts, for one
\* task and one taskset, while the backend is up: the only exceptions are
\* the IntegrityErrors of their races.
Next ==
    \/ Tick
    \/ \E p \in Procs :
          \/ StepTask(p, {"t1"}, {GET_TASK_RETRY}, {STORE_RESULT_RETRY})
          \/ StepTaskSet(p, {"s1"}, {TRUE})
          \/ StepExpired(p)

Spec == Init /\ [][Next]_vars

\* The same two workers while nothing expires: no delete_expired runs.
NextRace ==
    \/ Tick
    \/ \E p \in Procs :
          StepTask(p, TaskIds, {GET_TASK_RETRY}, {STORE_RESULT_RETRY})

SpecRace == Init /\ [][NextRace]_vars

\* One worker calls every method with any retry count while the backend
\* fails and recovers at any moment.
RetryCounts == {-1, 0, 1, 2}

NextFaulty ==
    \/ Tick
    \/ Outage
    \/ Recover
    \/ StepTask("w1", {"t1"}, RetryCounts, RetryCounts)
    \/ StepTaskSet("w1", {"s1"}, BOOLEAN)
    \/ StepExpired("w1")

SpecFaulty == Init /\ [][NextFaulty]_vars

\* a call in progress makes its next round trip
Running(p) ==
    \/ get_task_recurse(p)
    \/ get_task_create(p)
    \/ store_result_recurse(p)
    \/ store_result_create(p)
    \/ store_result_save(p)
    \/ get_all_expired_eval(p)
    \/ delete_expired_delete(p)
    \/ delete_expired_objects(p)
    \/ ts_get_all_expired_eval(p)
    \/ ts_delete_expired_delete(p)
    \/ ts_delete_expired_objects(p)
    \/ ts_store_result_recurse(p)
    \/ ts_store_result_create(p)
    \/ ts_store_result_save(p)

\* The same worker and backend, where a call in progress is not suspended
\* for ever: the worker goes on with its code and the backend answers every
\* round trip, with a result or with an exception.
SpecFaultyFair == SpecFaulty /\ WF_vars(Running("w1"))

\* One worker makes three calls in a row, each with its default retry
\* count, while the backend is up; the clock ticks in between.
Calls ==
    {Call(op, t, DefaultPayload) : op \in {"get_task", "is_successful"},
                                   t \in TaskIds}
    \cup {Call("store_result", t, v) : t \in TaskIds, v \in Payloads}
    \cup {Call(op, "none", DefaultPayload) :
            op \in {"get_all_expired", "delete_expired",
                    "ts_get_all_expired", "ts_delete_expired"}}
    \cup {Call("get_taskset", s, DefaultPayload) : s \in TaskSetIds}
    \cup {Call("ts_store_result", s, [DefaultPayload EXCEPT !.result = v]) :
            s \in TaskSetIds, v \in TaskSetResults}

Scripts == {<<a, b, c>> : a \in Calls, b \in Calls, c \in Calls}

InitScript == \E calls \in Scripts : Start([calls |-> calls, at |-> 1])

\* the worker makes the next call of the script once the last has ended
ScriptCall(p) ==
    /\ plan.at <= Len(plan.calls)
    /\ plan' = [plan EXCEPT !.at = @ + 1]
    /\ LET c == plan.calls[plan.at]
       IN \/ c.op = "get_task" /\ get_task_call(p, c.id, GET_TASK_RETRY)
          \/ c.op = "is_successful" /\ is_successful_call(p, c.id)
          \/ c.op = "store_result"
             /\ store_result_call(p, c.id, c.payload, STORE_RESULT_RETRY)
          \/ c.op = "get_all_expired" /\ get_all_expired_call(p)
          \/ c.op = "delete_expired" /\ delete_expired_call(p)
          \/ c.op = "ts_get_all_expired" /\ ts_get_all_expired_call(p)
          \/ c.op = "ts_delete_expired" /\ ts_delete_expired_call(p)
          \/ c.op = "get_taskset" /\ get_taskset(p, c.id)
          \/ c.op = "ts_store_result"
             /\ ts_store_result_call(p, c.id, c.payload.result, TRUE)

NextScript ==
    \/ Tick
    \/ ScriptCall("w1")
    \/ get_task_create("w1")
    \/ store_result_create("w1")
    \/ store_result_save("w1")
    \/ get_all_expired_eval("w1")
    \/ delete_expired_delete("w1")
    \/ delete_expired_objects("w1")
    \/ ts_get_all_expired_eval("w1")
    \/ ts_delete_expired_delete("w1")
    \/ ts_delete_expired_objects("w1")
    \/ ts_store_result_create("w1")
    \/ ts_store_result_save("w1")

SpecScript == InitScript /\ [][NextScript]_vars

\* ================================================================ claims
\* process p's last call was of method op and has ended
Finished(p, op) == pc[p] = "idle" /\ frame[p].op = op

\* ---------------------------------------------------------------------
\* C1: when two processes call get_task(t) with the default retry count at
\* the same time for a task nobody has stored, both calls return the row
\* of t (neither raises the IntegrityError of the race), the two rows are
\* the same record, and the table holds exactly one row for t.
\* Checked under SpecRace: nothing expires while the calls run.
C1_ConcurrentGetOneRecord ==
    /\ \A p \in Procs :
          Finished(p, "get_task") =>
             /\ out[p].kind = "row"
             /\ \A r \in out[p].rows : r.id = frame[p].id
             /\ Cardinality(Lookup(tasks, frame[p].id)) = 1
    /\ \A p, q \in Procs :
          /\ Finished(p, "get_task")
          /\ Finished(q, "get_task")
          /\ frame[p].id = frame[q].id
          => \A r \in out[p].rows, u \in out[q].rows : r.pk = u.pk

\* both calls have returned, and one of them lost the race: its insert
\* raised, it rolled back and fetched the row on its second attempt
C1_Witness ==
    \E p, q \in Procs :
       /\ p # q
       /\ Finished(p, "get_task") /\ Finished(q, "get_task")
       /\ frame[p].id = frame[q].id
       /\ frame[p].rollbacks = 1 /\ frame[q].rollbacks = 0
       /\ out[p].kind = "row" /\ out[q].kind = "row"
       /\ Cardinality(tasks) = 1

\* ---------------------------------------------------------------------
\* C2: in every reachable state, whatever get_task, is_successful,
\* store_result, get_all_expired and delete_expired calls the processes
\* have interleaved on the two tables, the Task table holds at most one
\* row per task_id and the TaskSet table at most one row per taskset_id.
C2_OneRecordPerId ==
    /\ \A t \in TaskIds : Cardinality(Lookup(tasks, t)) <= 1
    /\ \A s \in TaskSetIds : Cardinality(Lookup(tasksets, s)) <= 1

\* both tables hold a row, and a process lost a race for the task's row:
\* its insert was refused and it is about to update the row instead
C2_Witness ==
    /\ tasks # {}
    /\ tasksets # {}
    /\ \E p \in Procs :
          /\ frame[p].op = "store_result"
          /\ frame[p].rollbacks = 1
          /\ pc[p] = "store_result_save"

\* ---------------------------------------------------------------------
\* C3 as claimed: a delete_expired that runs while other processes call
\* get_task and store_result removes no fresh row: a row whose date_done
\* is not older than the sweep's cutoff (the time the sweep began less
\* TASK_RESULT_EXPIRES) at the moment of removal, as is every row created
\* or saved after the sweep began, is still in its table when the sweep
\* ends.
C3_SweepSparesFresh ==
    [][\A p \in Procs :
          /\ (/\ pc[p] \in {"delete_expired_delete", "delete_expired_objects"}
              /\ pc'[p] = "idle") =>
                \A r \in tasks :
                   r.date_done >= frame[p].began - TASK_RESULT_EXPIRES
                   => r \in tasks'
          /\ (/\ pc[p] \in {"ts_delete_expired_delete",
                            "ts_delete_expired_objects"}
              /\ pc'[p] = "idle") =>
                \A r \in tasksets :
                   r.date_done >= frame[p].began - TASK_RESULT_EXPIRES
                   => r \in tasksets']_vars

\* ---------------------------------------------------------------------
\* the methods that catch every exception and retry
Retrying == {"get_task", "is_successful", "store_result", "ts_store_result"}

\* the retries a call is allowed: its retry count, none when negative
Allowed(f) == IF f.budget > 0 THEN f.budget ELSE 0

\* C4: when every attempt of a store_result called with retry count N >= 0
\* raises, the call makes exactly N + 1 attempts (3 with the default
\* count of 2) and then raises the exception of its last attempt as the
\* backend raised it, and no row is written; get_task with its default
\* count of 1 makes exactly 2 attempts before it raises.
C4_RetryExhaustion ==
    /\ [](\A p \in Procs :
            /\ frame[p].op \in {"get_task", "store_result"}
            /\ pc[p] = "idle"
            /\ out[p].kind = "raise"
            /\ frame[p].budget >= 0
            => /\ frame[p].attempts = frame[p].budget + 1
               /\ out[p].err.attempt = frame[p].attempts
               /\ out[p].err.kind \in ErrKinds
               /\ ~frame[p].wrote)
    /\ [][backend # "up" =>
            /\ tasks' = tasks
            /\ tasksets' = tasksets
            /\ \A p \in Procs :
                  (out'[p].kind = "raise" /\ (pc[p] # "idle" \/ ncalls' # ncalls))
                  => out'[p].err.kind = backend]_vars

\* store_result with the default count has raised the transient conflict
\* of its third attempt, and there is no row for its task
C4_Witness ==
    \E p \in Procs :
       /\ Finished(p, "store_result")
       /\ frame[p].budget = STORE_RESULT_RETRY
       /\ out[p].kind = "raise"
       /\ out[p].err = [kind |-> "TransientConflict", attempt |-> 3]
       /\ frame[p].attempts = 3
       /\ Lookup(tasks, frame[p].id) = {}

\* ---------------------------------------------------------------------
\* C5 as claimed: a PermanentBackendFailure is never rolled back and
\* retried: no step taken while the backend raises it adds a rollback.
C5_PermanentNotRetried ==
    [][backend = "PermanentBackendFailure" =>
          \A p \in Procs :
             frame'[p].rollbacks =
                (IF ncalls' # ncalls /\ pc[p] = "idle" /\ frame'[p].op # "none"
                 THEN 0 ELSE frame[p].rollbacks)]_vars

\* C5 as amended: get_task, store_result and the taskset store_result
\* treat a PermanentBackendFailure as any other exception: it is rolled
\* back and retried while retries are left, and reaches the caller only
\* from the attempt made with none left, after as many rollbacks as the
\* call was allowed retries (on the first attempt only for a count <= 0).
C5_PermanentIsRetried ==
    \A p \in Procs :
       /\ frame[p].op \in Retrying
       /\ pc[p] = "idle"
       /\ out[p].kind = "raise"
       /\ out[p].err.kind = "PermanentBackendFailure"
       => /\ frame[p].retry <= 0
          /\ frame[p].rollbacks = Allowed(frame[p])
          /\ frame[p].attempts = Allowed(frame[p]) + 1

\* get_task with the default count has raised a PermanentBackendFailure,
\* from its second attempt
C5_Witness ==
    \E p \in Procs :
       /\ Finished(p, "get_task")
       /\ frame[p].budget = GET_TASK_RETRY
       /\ out[p].kind = "raise"
       /\ out[p].err = [kind |-> "PermanentBackendFailure", attempt |-> 2]
       /\ frame[p].rollbacks = 1

\* ---------------------------------------------------------------------
\* C6 as claimed: every attempt that raised was rolled back, the last one
\* included: a call that has raised made as many rollbacks as attempts.
C6_EveryFailureRolledBack ==
    \A p \in Procs :
       /\ frame[p].op \in Retrying
       /\ pc[p] = "idle"
       /\ out[p].kind = "raise"
       => frame[p].rollbacks = frame[p].attempts

\* C6 as amended: every attempt that raised and is retried was rolled back
\* before the retry (a call in its n-th attempt has made n - 1 rollbacks);
\* the attempt whose exception reaches the caller, made with no retry
\* left, is not rolled back.
C6_RetriedFailuresRolledBack ==
    \A p \in Procs :
       frame[p].op \in Retrying =>
          /\ frame[p].rollbacks = frame[p].attempts - 1
          /\ (pc[p] = "idle" /\ out[p].kind = "raise") => frame[p].retry <= 0

\* the taskset store_result has raised from its second attempt, after the
\* one rollback that preceded it
C6_Witness ==
    \E p \in Procs :
       /\ Finished(p, "ts_store_result")
       /\ out[p].kind = "raise"
       /\ frame[p].attempts = 2
       /\ frame[p].rollbacks = 1

\* ---------------------------------------------------------------------
\* C7: store_result writes a row as a whole.  While two processes call
\* store_result for the same task with different payloads, and race with
\* the creation of its row, every row holds the status, result and
\* traceback of one call (or of the row get_task creates), never fields of
\* different calls; every store_result that has returned had its payload
\* in the row when it wrote; and once both have returned, the row holds
\* the payload of one of the two.
C7_StoreResultAtomic ==
    /\ \A r \in tasks : PayloadOf(r) \in Payloads \cup {DefaultPayload}
    /\ \A p \in Procs :
          (Finished(p, "store_result") /\ out[p].kind = "ok")
          => frame[p].wrote
    /\ \A p, q \in Procs :
          /\ p # q
          /\ Finished(p, "store_result") /\ out[p].kind = "ok"
          /\ Finished(q, "store_result") /\ out[q].kind = "ok"
          /\ frame[p].id = frame[q].id
          => \A r \in Lookup(tasks, frame[p].id) :
                PayloadOf(r) \in {frame[p].payload, frame[q].payload}

\* both processes have returned from store_result for the same task with
\* different payloads, one of them after it lost the race to create the
\* row, and the row holds the payload of one of them
C7_Witness ==
    \E p, q \in Procs :
       /\ Finished(p, "store_result") /\ out[p].kind = "ok"
       /\ Finished(q, "store_result") /\ out[q].kind = "ok"
       /\ frame[p].id = frame[q].id
       /\ frame[p].payload # frame[q].payload
       /\ frame[p].rollbacks = 1
       /\ frame[q].pk = 0
       /\ \E r \in Lookup(tasks, frame[p].id) :
             PayloadOf(r) = frame[p].payload

\* ---------------------------------------------------------------------
\* C8: for every task t and payloads a and b, after store_result(t, a),
\* then store_result(t, b), then get_task(t), get_task returns the row of
\* t with exactly the status, result and traceback of b, whatever the
\* statuses of a and b.
C8_LastStoreWins ==
    \A t \in TaskIds, a, b \in Payloads :
       /\ plan.calls = <<Call("store_result", t, a),
                         Call("store_result", t, b),
                         Call("get_task", t, DefaultPayload)>>
       /\ plan.at = 4
       /\ pc["w1"] = "idle"
       => /\ out["w1"].kind = "row"
          /\ \A r \in out["w1"].rows :
                /\ r.id = t
                /\ r.status = b.status
                /\ r.result = b.result
                /\ r.traceback = b.traceback

\* the first call stored SUCCESS with a traceback, the second RETRY with
\* the default traceback, and get_task has returned the second
C8_Witness ==
    /\ \E t \in TaskIds :
          plan.calls = <<Call("store_result", t, PayloadA),
                         Call("store_result", t, PayloadB),
                         Call("get_task", t, DefaultPayload)>>
    /\ plan.at = 4
    /\ Finished("w1", "get_task")
    /\ \E r \in out["w1"].rows :
          r.status = "RETRY" /\ r.result = "r2" /\ r.traceback = "None"

\* ---------------------------------------------------------------------
\* C9: with cutoff the time of the call less TASK_RESULT_EXPIRES,
\* get_all_expired returns exactly the rows whose date_done is strictly
\* less than the cutoff, whatever their status, and changes no table;
\* delete_expired removes exactly those rows and leaves every other row
\* as it was; for the task table and for the taskset table alike.
C9_ExpiredExactly ==
    [][\A p \in Procs :
          LET cutoff == frame[p].began - TASK_RESULT_EXPIRES
              done   == pc'[p] = "idle" /\ out'[p].kind # "raise"
          IN /\ (pc[p] = "get_all_expired_eval" /\ done) =>
                   /\ out'[p].rows = {r \in tasks : r.date_done < cutoff}
                   /\ tasks' = tasks /\ tasksets' = tasksets
             /\ (pc[p] = "ts_get_all_expired_eval" /\ done) =>
                   /\ out'[p].rows = {r \in tasksets : r.date_done < cutoff}
                   /\ tasks' = tasks /\ tasksets' = tasksets
             /\ (pc[p] \in {"delete_expired_delete", "delete_expired_objects"}
                  /\ done) =>
                   /\ tasks' = {r \in tasks : ~(r.date_done < cutoff)}
                   /\ tasksets' = tasksets
             /\ (pc[p] \in {"ts_delete_expired_delete",
                              "ts_delete_expired_objects"} /\ done) =>
                   /\ tasksets' = {r \in tasksets : ~(r.date_done < cutoff)}
                   /\ tasks' = tasks]_vars

\* delete_expired has removed one of two rows and left the one whose
\* date_done equals the cutoff
C9_Witness ==
    /\ Finished("w1", "delete_expired")
    /\ out["w1"].kind = "ok"
    /\ seq.task = 2
    /\ Cardinality(tasks) = 1
    /\ \E r \in tasks : r.date_done = frame["w1"].began - TASK_RESULT_EXPIRES

\* ---------------------------------------------------------------------
\* C10: get_task never answers that there is no row: whenever it returns,
\* it returns one row, whose task_id is the one asked for and which was in
\* the table at the round trip that returned it, whether it found the row
\* or created it.
C10_GetTaskAlwaysARow ==
    \A p \in Procs :
       (Finished(p, "get_task") /\ out[p].kind # "raise")
       => /\ out[p].kind = "row"
          /\ out[p].live
          /\ Cardinality(out[p].rows) = 1
          /\ \A r \in out[p].rows : r.id = frame[p].id

\* the first call ever made was a get_task, of a task that had no row, and
\* it has returned the row it created
C10_Witness ==
    \E p \in Procs :
       /\ Finished(p, "get_task")
       /\ ncalls = 1
       /\ out[p].kind = "row"
       /\ out[p].live
       /\ \E r \in out[p].rows : r.id = frame[p].id /\ r \in tasks

\* ---------------------------------------------------------------------
\* the call a script makes in this step, if it makes one
Calling(op) ==
    /\ plan'.at = plan.at + 1
    /\ plan.calls[plan.at].op = op

\* C11: get_taskset for a taskset_id that has no row returns None and
\* creates no row: both tables and the primary keys given out are the same
\* before and after the call, and a second get_taskset for that id, with no
\* store_result for it in between, returns None again.
C11_GetTasksetAbsent ==
    /\ [][(/\ Calling("get_taskset")
           /\ Lookup(tasksets, plan.calls[plan.at].id) = {})
          => /\ pc'["w1"] = "idle"
             /\ out'["w1"].kind = "absent"
             /\ out'["w1"].rows = {}
             /\ tasksets' = tasksets
             /\ tasks' = tasks
             /\ seq' = seq]_vars
    /\ [](\A sid \in TaskSetIds :
            /\ plan.calls[2] = Call("get_taskset", sid, DefaultPayload)
            /\ plan.calls[3] = Call("get_taskset", sid, DefaultPayload)
            /\ ~(plan.calls[1].op = "ts_store_result" /\ plan.calls[1].id = sid)
            /\ plan.at \in {3, 4}
            /\ pc["w1"] = "idle"
            => /\ out["w1"].kind = "absent"
               /\ Lookup(tasksets, sid) = {})

\* a taskset was stored, and get_taskset has twice returned None for
\* another id while the table kept its one row
C11_Witness ==
    /\ plan.calls = <<Call("ts_store_result", "s1",
                           [DefaultPayload EXCEPT !.result = "g1"]),
                      Call("get_taskset", "s2", DefaultPayload),
                      Call("get_taskset", "s2", DefaultPayload)>>
    /\ plan.at = 4
    /\ Finished("w1", "get_taskset")
    /\ out["w1"].kind = "absent"
    /\ Cardinality(tasksets) = 1
    /\ seq.taskset = 1

\* ---------------------------------------------------------------------
\* the round trips of the taskset store_result
TsStorePcs ==
    {"ts_store_result_get", "ts_store_result_create", "ts_store_result_save"}

\* C12: the taskset store_result retries once and no more: a call makes at
\* most 2 attempts and 1 rollback, its second attempt runs with
\* exception_retry False, and an exception raised in the second attempt
\* ends the call and reaches the caller as the backend raised it; with
\* exception_retry False the first attempt is the only one.
C12_TasksetStoreRetriesOnce ==
    /\ [](\A p \in Procs :
            frame[p].op = "ts_store_result" =>
               /\ frame[p].attempts \in {1, 2}
               /\ frame[p].rollbacks = frame[p].attempts - 1
               /\ frame[p].attempts = 2 =>
                     (frame[p].budget = 1 /\ frame[p].retry = 0)
               /\ frame[p].budget = 0 => frame[p].attempts = 1)
    /\ [][\A p \in Procs :
            /\ pc[p] \in TsStorePcs
            /\ frame[p].attempts = 2
            /\ backend # "up"
            /\ pc'[p] # pc[p]
            => /\ pc'[p] = "idle"
               /\ out'[p].kind = "raise"
               /\ out'[p].err = [kind |-> backend, attempt |-> 2]
               /\ frame'[p] = frame[p]]_vars

\* the taskset store_result, called with the default flag, has raised the
\* exception of its second attempt
C12_Witness ==
    \E p \in Procs :
       /\ Finished(p, "ts_store_result")
       /\ frame[p].budget = 1
       /\ frame[p].attempts = 2
       /\ out[p].kind = "raise"
       /\ out[p].err.attempt = 2
       /\ out[p].err.kind = "TransientConflict"

\* ---------------------------------------------------------------------
\* C13: get_task for a task that has a row changes nothing: it returns
\* that row, and the tables, with every field of every row, and the
\* primary keys given out are the same before and after the call; two
\* get_task calls for the same task in a row, with no write in between,
\* return the same row (the same primary key, task_id and status).
C13_GetTaskReadsOnly ==
    /\ [][(/\ Calling("get_task")
           /\ Lookup(tasks, plan.calls[plan.at].id) # {})
          => /\ pc'["w1"] = "idle"
             /\ out'["w1"].kind = "row"
             /\ out'["w1"].rows = Lookup(tasks, plan.calls[plan.at].id)
             /\ tasks' = tasks
             /\ tasksets' = tasksets
             /\ seq' = seq]_vars
    /\ [][(/\ Calling("get_task")
           /\ plan.at > 1
           /\ plan.calls[plan.at - 1] = plan.calls[plan.at])
          => /\ out'["w1"].kind = "row"
             /\ \A r1 \in out["w1"].rows, r2 \in out'["w1"].rows :
                   r1.pk = r2.pk /\ r1.id = r2.id /\ r1.status = r2.status
             /\ Cardinality(out["w1"].rows) = 1
             /\ Cardinality(out'["w1"].rows) = 1]_vars

\* the row was stored at time 0 and get_task has returned it twice, the
\* second time at time 2, with the date_done it had
C13_Witness ==
    /\ \E t \in TaskIds :
          plan.calls = <<Call("store_result", t, PayloadA),
                         Call("get_task", t, DefaultPayload),
                         Call("get_task", t, DefaultPayload)>>
    /\ plan.at = 4
    /\ Finished("w1", "get_task")
    /\ now = 2
    /\ Cardinality(tasks) = 1
    /\ out["w1"].rows = tasks
    /\ \A r \in tasks : r.date_done = 0 /\ r.status = "SUCCESS"

\* ---------------------------------------------------------------------
\* the task_ids, or taskset_ids, that have a row
Ids(rows) == {r.id : r \in rows}

\* the round trips of delete_expired
DeletePcs ==
    {"delete_expired_delete", "delete_expired_objects",
     "ts_delete_expired_delete", "ts_delete_expired_objects"}

\* C14: only delete_expired removes rows: no step of get_task,
\* is_successful, store_result, get_taskset or get_all_expired, whether it
\* succeeds, raises and is retried after a rollback, or raises to the
\* caller, takes an id out of the set of ids that have a row, in either
\* table.
C14_OnlySweepRemoves ==
    [][(\A p \in Procs : pc[p] \in DeletePcs => pc'[p] = pc[p])
       => /\ Ids(tasks) \subseteq Ids(tasks')
          /\ Ids(tasksets) \subseteq Ids(tasksets')]_vars

\* store_result has raised after its retries, for a task whose row is
\* still there
C14_Witness ==
    \E p \in Procs :
       /\ Finished(p, "store_result")
       /\ out[p].kind = "raise"
       /\ frame[p].rollbacks = 2
       /\ frame[p].pk # 0
       /\ frame[p].id \in Ids(tasks)

\* ---------------------------------------------------------------------
\* C15: is_successful(t) returns True exactly when the row get_task(t)
\* returns has the status "SUCCESS": after store_result(t, v) it returns
\* True if the status of v is "SUCCESS" and False if it is any other; it
\* returns what the status of the row of t says; and a get_task(t) that
\* follows it returns a row whose status is "SUCCESS" exactly when it
\* returned True.
C15_IsSuccessfulIffSuccess ==
    /\ [](\A t \in TaskIds, v \in Payloads :
            /\ plan.calls[1] = Call("store_result", t, v)
            /\ plan.calls[2] = Call("is_successful", t, DefaultPayload)
            /\ plan.at = 3
            /\ pc["w1"] = "idle"
            => /\ out["w1"].kind = "bool"
               /\ out["w1"].flag = (v.status = "SUCCESS"))
    /\ [](Finished("w1", "is_successful") =>
            /\ out["w1"].kind = "bool"
            /\ Cardinality(Lookup(tasks, frame["w1"].id)) = 1
            /\ \A r \in Lookup(tasks, frame["w1"].id) :
                  out["w1"].flag = (r.status = "SUCCESS"))
    /\ [][(/\ Calling("get_task")
           /\ plan.at > 1
           /\ plan.calls[plan.at - 1] =
                 Call("is_successful", plan.calls[plan.at].id, DefaultPayload))
          => \A r \in out'["w1"].rows :
                out["w1"].flag = (r.status = "SUCCESS")]_vars

\* is_successful has returned True for a task stored with RETRY and then
\* with SUCCESS
C15_Witness ==
    /\ \E t \in TaskIds :
          plan.calls = <<Call("store_result", t, PayloadB),
                         Call("store_result", t, PayloadA),
                         Call("is_successful", t, DefaultPayload)>>
    /\ plan.at = 4
    /\ Finished("w1", "is_successful")
    /\ out["w1"].kind = "bool"
    /\ out["w1"].flag

\* is_successful has returned False for a task stored with RETRY
C15_WitnessFalse ==
    /\ \E t \in TaskIds :
          /\ plan.calls[1] = Call("store_result", t, PayloadB)
          /\ plan.calls[2] = Call("is_successful", t, DefaultPayload)
    /\ plan.at = 3
    /\ Finished("w1", "is_successful")
    /\ ~out["w1"].flag

\* ---------------------------------------------------------------------
\* the sweeps, and the table each one sweeps
Sweeps == {"delete_expired", "ts_delete_expired"}

Swept(op) == IF op = "delete_expired" THEN tasks ELSE tasksets

\* the rows the sweep in progress would match
Matching(p) ==
    {r \in Swept(frame[p].op) :
        r.date_done < frame[p].began - TASK_RESULT_EXPIRES}

\* C16: delete_expired is idempotent.  When a sweep has ended, no row
\* matches its parameters; a second sweep of the same table that is called
\* at the same time, with no write in between, has the same cutoff and so
\* starts with nothing to match; nothing comes to match while it waits for
\* its query; and its query deletes nothing: both tables and the primary
\* keys given out stay as the first sweep left them.
C16_SweepIdempotent ==
    /\ [](/\ frame["w1"].op \in Sweeps
          /\ pc["w1"] = "idle"
          /\ out["w1"].kind = "ok"
          => Matching("w1") = {})
    /\ [][(/\ plan'.at = plan.at + 1
           /\ plan.at > 1
           /\ plan.calls[plan.at].op \in Sweeps
           /\ plan.calls[plan.at - 1] = plan.calls[plan.at]
           /\ now = frame["w1"].began)
          => /\ frame'["w1"].cutoff = frame["w1"].cutoff
             /\ frame'["w1"].began = frame["w1"].began
             /\ tasks' = tasks /\ tasksets' = tasksets /\ seq' = seq
             /\ {r \in Swept(frame'["w1"].op) :
                   r.date_done < frame'["w1"].cutoff} = {}]_vars
    /\ [][(/\ frame["w1"].op \in Sweeps
           /\ pc["w1"] # "idle"
           /\ Matching("w1") = {})
          => /\ tasks' = tasks /\ tasksets' = tasksets /\ seq' = seq
             /\ \/ pc'["w1"] = pc["w1"] /\ frame'["w1"] = frame["w1"]
                \/ pc'["w1"] = "idle" /\ out'["w1"].kind = "ok"]_vars

\* the one row stored has been swept and the second of two delete_expired
\* calls in a row, made at time 2, has ended with the table still empty
C16_Witness ==
    /\ \E t \in TaskIds :
          plan.calls = <<Call("store_result", t, PayloadA),
                         Call("delete_expired", "none", DefaultPayload),
                         Call("delete_expired", "none", DefaultPayload)>>
    /\ plan.at = 4
    /\ Finished("w1", "delete_expired")
    /\ out["w1"].kind = "ok"
    /\ frame["w1"].began = 2
    /\ tasks = {}
    /\ seq.task = 1

\* ---------------------------------------------------------------------
\* C17: every call of get_task and of store_result ends, whatever retry
\* count the caller passes.  A call with count n makes at most n + 1
\* attempts and n rollbacks (one attempt and no rollback when n <= 0); the
\* count the running attempt holds is n less the rollbacks made, one less
\* at each retry; a call with a count <= 0 that raises has made one attempt
\* and no rollback; and a call in progress always comes to its end.
C17_RetryTerminates ==
    /\ [](\A p \in Procs :
            frame[p].op \in {"get_task", "store_result"} =>
               /\ frame[p].attempts <= Allowed(frame[p]) + 1
               /\ frame[p].rollbacks <= Allowed(frame[p])
               /\ frame[p].retry = frame[p].budget - frame[p].rollbacks
               /\ (frame[p].budget <= 0 /\ pc[p] = "idle"
                   /\ out[p].kind = "raise")
                  => (frame[p].attempts = 1 /\ frame[p].rollbacks = 0))
    /\ [][\A p \in Procs :
            (/\ pc[p] # "idle"
             /\ frame[p].op \in {"get_task", "store_result"}
             /\ frame'[p].attempts # frame[p].attempts)
            => /\ frame'[p].attempts = frame[p].attempts + 1
               /\ frame'[p].rollbacks = frame[p].rollbacks + 1
               /\ frame'[p].retry = frame[p].retry - 1
               /\ frame[p].retry > 0]_vars
    /\ \A p \in Procs :
          (pc[p] # "idle" /\ frame[p].op \in {"get_task", "store_result"})
          ~> (pc[p] = "idle")

\* store_result called with the count -1 has raised from its one attempt
C17_Witness ==
    \E p \in Procs :
       /\ Finished(p, "store_result")
       /\ frame[p].budget = -1
       /\ out[p].kind = "raise"
       /\ frame[p].attempts = 1
       /\ frame[p].rollbacks = 0

\* ---------------------------------------------------------------------
\* C18: a store_result that succeeds after attempts that raised and were
\* rolled back leaves what one that succeeds at once leaves.  The step that
\* ends a store_result normally, after any number of rollbacks, makes the
\* row of its id the one row with the values of the call and the time of
\* the write (the row that was there, updated, or a new row with the next
\* primary key) and changes no other row and not the other table; once it
\* has returned there is exactly one row for the id, with exactly the
\* values the caller passed.
C18_RetrySameAsFirst ==
    /\ [](\A p \in Procs :
            (pc[p] = "idle" /\ out[p].kind = "ok") =>
               /\ frame[p].op = "store_result" =>
                     /\ frame[p].payload \in Payloads
                     /\ Cardinality(Lookup(tasks, frame[p].id)) = 1
                     /\ \A r \in Lookup(tasks, frame[p].id) :
                           PayloadOf(r) = frame[p].payload
               /\ frame[p].op = "ts_store_result" =>
                     /\ frame[p].payload.result \in TaskSetResults
                     /\ Cardinality(Lookup(tasksets, frame[p].id)) = 1
                     /\ \A r \in Lookup(tasksets, frame[p].id) :
                           r.result = frame[p].payload.result)
    /\ [][\A p \in Procs :
            (pc[p] # "idle" /\ pc'[p] = "idle" /\ out'[p].kind = "ok") =>
               /\ frame[p].op = "store_result" =>
                     LET old == Lookup(tasks, frame[p].id)
                     IN /\ tasksets' = tasksets
                        /\ \E r \in tasks' :
                              /\ tasks' = (tasks \ old) \cup {r}
                              /\ r = TaskRow(r.pk, frame[p].id,
                                             frame[p].payload, now)
                              /\ IF old = {}
                                 THEN r.pk = seq.task + 1
                                 ELSE r.pk \in {o.pk : o \in old}
               /\ frame[p].op = "ts_store_result" =>
                     LET old == Lookup(tasksets, frame[p].id)
                     IN /\ tasks' = tasks
                        /\ \E r \in tasksets' :
                              /\ tasksets' = (tasksets \ old) \cup {r}
                              /\ r = TaskSetRow(r.pk, frame[p].id,
                                                frame[p].payload.result, now)
                              /\ IF old = {}
                                 THEN r.pk = seq.taskset + 1
                                 ELSE r.pk \in {o.pk : o \in old}]_vars

\* store_result has returned from its third attempt, after two rollbacks,
\* and its row, the only one, holds its values
C18_Witness ==
    \E p \in Procs :
       /\ Finished(p, "store_result")
       /\ out[p].kind = "ok"
       /\ frame[p].rollbacks = 2
       /\ frame[p].payload = PayloadA
       /\ Cardinality(tasks) = 1
       /\ \A r \in tasks : PayloadOf(r) = PayloadA /\ r.id = frame[p].id

\* ---------------------------------------------------------------------
\* C19: is_successful writes.  Called for a task that has no row, it goes
\* on to create one: when it returns, the task table has exactly one row
\* more, the row of that task with the PENDING status and the other field
\* defaults, and it returns False; a get_task for the task that follows
\* returns that row (the same primary key) and creates no other.
C19_IsSuccessfulCreates ==
    /\ [][(/\ Calling("is_successful")
           /\ Lookup(tasks, plan.calls[plan.at].id) = {})
          => /\ pc'["w1"] = "get_task_create"
             /\ tasks' = tasks]_vars
    /\ [][(/\ pc["w1"] = "get_task_create"
           /\ frame["w1"].op = "is_successful"
           /\ pc'["w1"] = "idle")
          => /\ out'["w1"].kind = "bool"
             /\ ~out'["w1"].flag
             /\ Lookup(tasks, frame["w1"].id) = {}
             /\ tasks' = tasks \cup
                   {TaskRow(seq.task + 1, frame["w1"].id, DefaultPayload, now)}
             /\ Cardinality(tasks') = Cardinality(tasks) + 1
             /\ tasksets' = tasksets]_vars
    /\ [](\A t \in TaskIds :
            /\ plan.calls[1] = Call("is_successful", t, DefaultPayload)
            /\ plan.calls[2] = Call("get_task", t, DefaultPayload)
            /\ plan.at = 3
            /\ pc["w1"] = "idle"
            => /\ out["w1"].kind = "row"
               /\ out["w1"].rows = tasks
               /\ seq.task = 1
               /\ \E d \in 0..MaxTime :
                     tasks = {TaskRow(1, t, DefaultPayload, d)})

\* is_successful was called first, at time 0, for a task with no row, and
\* the get_task that followed, at time 1, has returned the row it created
C19_Witness ==
    /\ plan.calls[1] = Call("is_successful", "t1", DefaultPayload)
    /\ plan.calls[2] = Call("get_task", "t1", DefaultPayload)
    /\ plan.at = 3
    /\ Finished("w1", "get_task")
    /\ now = 1
    /\ out["w1"].rows = {TaskRow(1, "t1", DefaultPayload, 0)}
    /\ tasks = out["w1"].rows

\* ---------------------------------------------------------------------
\* C20: get_taskset makes one attempt, with no rollback and no retry: the
\* call is over with its one round trip; when there is no row it returns
\* None, when there is one it returns it, and an exception of the backend,
\* a transient conflict as any other, reaches the caller from that first
\* attempt as the backend raised it; the tables are not changed.
C20_GetTasksetOneAttempt ==
    /\ [](\A p \in Procs :
            frame[p].op = "get_taskset" =>
               /\ pc[p] = "idle"
               /\ frame[p].attempts = 1
               /\ frame[p].rollbacks = 0
               /\ out[p].kind \in {"row", "absent", "raise"})
    /\ [][\A p \in Procs :
            (ncalls' # ncalls /\ pc[p] = "idle" /\ frame'[p].op = "get_taskset")
            => /\ tasks' = tasks /\ tasksets' = tasksets /\ seq' = seq
               /\ IF backend # "up"
                  THEN out'[p] = Raised([kind |-> backend, attempt |-> 1])
                  ELSE IF Lookup(tasksets, frame'[p].id) = {}
                  THEN out'[p].kind = "absent" /\ out'[p].rows = {}
                  ELSE /\ out'[p].kind = "row"
                       /\ out'[p].rows = Lookup(tasksets, frame'[p].id)]_vars

\* get_taskset has raised the transient conflict of its one attempt
C20_Witness ==
    \E p \in Procs :
       /\ Finished(p, "get_taskset")
       /\ out[p].kind = "raise"
       /\ out[p].err = [kind |-> "TransientConflict", attempt |-> 1]
       /\ frame[p].attempts = 1
       /\ frame[p].rollbacks = 0

====
